---- MODULE Spec2Model ----
(***************************************************************************)
(* Model of the push2pg / push2es ingestion pipeline of                     *)
(* w3c-extendedlog-parser (cli/cmd): the pooled row buffer (Row, Rows,      *)
(* Source), the per-file uploader uploadPG / uploadFilePG, the worker pool  *)
(* uploadFilesPG and the file loop of push2esCmd.Run.                       *)
(*                                                                         *)
(* Several state machines share the module:                                 *)
(*   SpecRows     any sequence of calls on one Rows buffer and its cursor;  *)
(*   SpecUpload   one run of uploadPG on one file;                          *)
(*   Spec         the dispatcher with its workers, each running uploadPG;   *)
(*   SpecES       the file loop of the index sink;                          *)
(*   SpecMapping  newMessageFields over a list of field names;              *)
(*   SpecConvert  pgConvert applied to one parsed value;                    *)
(*   SpecEncode   MyMyTime.EncodeBinary applied to one time of day.         *)
(***************************************************************************)
EXTENDS Integers, Sequences, FiniteSets, TLC

\* ------------------------------------------------------------- bounds
\* largest batch size (bsize / maxSize) explored
MaxBatch == 2
\* largest row width (nbFields) explored
MaxFields == 3
\* most lines a parser yields for one file
MaxLines == 4
\* most filenames given on the command line
MaxFiles == 2
\* largest number of injectors (the parallel flag)
MaxWorkers == 2

\* addresses of backing arrays: a full batch needs MaxBatch of them; a
\* pooled array that is never handed out again is indistinguishable from a
\* dropped one, so no more are needed
Bufs == 1..MaxBatch
\* the zero value of interface{} (an unwritten slot of a backing array)
Nil == 0

\* ------------------------------------------------------------- helpers
Min(S) == CHOOSE x \in S : \A y \in S : x <= y
Range(s) == {s[i] : i \in 1..Len(s)}

\* ------------------------------------------------------------- Row, Rows
\* A Row value is a slice header [buf, len]; its capacity is the length of
\* the backing array heap[buf].  A Rows object is
\*   [maxSize, nbFields, rows, pool, heap]
\* rows: the batch (headers, in order); pool: the Row values handed to
\* sync.Pool.Put; heap: the backing arrays (<<>> = not allocated).

RowCap(r, row) == Len(r.heap[row.buf])

RowVals(r, row) == SubSeq(r.heap[row.buf], 1, row.len)

RowFactory(maxSize, nbFields) ==
    [maxSize |-> maxSize, nbFields |-> nbFields, rows |-> <<>>,
     pool |-> {}, heap |-> [b \in Bufs |-> <<>>]]

\* make([]interface{}, 0, nbFields): a zeroed backing array of nbFields slots
PoolNew(nbFields) == [i \in 1..nbFields |-> Nil]

LiveBufs(r) == {r.rows[i].buf : i \in 1..Len(r.rows)} \cup {it.buf : it \in r.pool}

FreeBufs(r) == Bufs \ LiveBufs(r)

\* sync.Pool.Get: either an item put earlier (removed from the pool), or
\* the result of New.  The pool may drop items at any time, so New can run
\* while items are pooled; a dropped item's array is garbage and its
\* address may be allocated again.
PoolGetNoRemove(r) ==
    {[row |-> it, pool |-> r.pool, heap |-> r.heap, fresh |-> FALSE] : it \in r.pool}
    \cup
    (IF FreeBufs(r) # {}
     THEN {[row |-> [buf |-> Min(FreeBufs(r)), len |-> 0], pool |-> r.pool,
            heap |-> [r.heap EXCEPT ![Min(FreeBufs(r))] = PoolNew(r.nbFields)],
            fresh |-> TRUE]}
     ELSE {})

PoolGet(r) ==
    {[row |-> it, pool |-> r.pool \ {it}, heap |-> r.heap, fresh |-> FALSE] :
        it \in r.pool}
    \cup
    (IF FreeBufs(r) # {}
     THEN {[row |-> [buf |-> Min(FreeBufs(r)), len |-> 0], pool |-> r.pool,
            heap |-> [r.heap EXCEPT ![Min(FreeBufs(r))] = PoolNew(r.nbFields)],
            fresh |-> TRUE]}
     ELSE {[row |-> [buf |-> it.buf, len |-> 0], pool |-> r.pool \ {it},
            heap |-> [r.heap EXCEPT ![it.buf] = PoolNew(r.nbFields)],
            fresh |-> TRUE] : it \in r.pool})

\* the number of leading slots of array b some slice header can read
Readable(r, b) ==
    LET lens == {r.rows[i].len : i \in {j \in 1..Len(r.rows) : r.rows[j].buf = b}}
                \cup {it.len : it \in {x \in r.pool : x.buf = b}} \cup {0}
    IN CHOOSE m \in lens : \A l \in lens : l <= m

\* The program never extends a slice (its only reslice is row[:0]), so a
\* slot at or beyond the length of every header of its array can never be
\* read again: such slots are kept Nil, which identifies the memory states
\* no run of the program can tell apart.
Scrub(r) ==
    [r EXCEPT !.heap = [b \in Bufs |->
        [k \in 1..Len(r.heap[b]) |->
            IF k <= Readable(r, b) THEN r.heap[b][k] ELSE Nil]]]

\* row = row[:0]
RowTruncNone(row) == row

RowTrunc(row) == [row EXCEPT !.len = 0]

\* the guard of GetRow
HasRoomOffByOne(r) == Len(r.rows) <= r.maxSize

HasRoom(r) == Len(r.rows) < r.maxSize

\* Rows.GetRow: the possible results [r, row, full, fresh]; row is the
\* position in the batch of the header the returned pointer refers to
\* (0 = nil).
GetRow(r) ==
    IF HasRoom(r)
    THEN {[r |-> Scrub([r EXCEPT !.rows = Append(r.rows, RowTrunc(g.row)),
                                 !.pool = g.pool, !.heap = g.heap]),
           row |-> Len(r.rows) + 1, full |-> FALSE, fresh |-> g.fresh] :
            g \in PoolGet(r)}
    ELSE {[r |-> r, row |-> 0, full |-> TRUE, fresh |-> FALSE]}

\* the guard of Row.AddField, with cap replaced by a wrong bound
CanAppendUnchecked(r, row) == TRUE

CanAppend(r, row) == row.len < RowCap(r, row)

\* Row.AddField on the header at position i of the batch: [r, err].
\* append writes slot len of the array when len < cap, and grows it otherwise.
AddField(r, i, v) ==
    LET row == r.rows[i] IN
    IF CanAppend(r, row)
    THEN [r |-> [r EXCEPT !.rows[i].len = row.len + 1,
                          !.heap[row.buf] =
                              IF row.len < Len(r.heap[row.buf])
                              THEN [r.heap[row.buf] EXCEPT ![row.len + 1] = v]
                              ELSE Append(r.heap[row.buf], v)],
          err |-> FALSE]
    ELSE [r |-> r, err |-> TRUE]

\* Rows.GetSource: the positions (1-based) of the rows of wrong width
BadRowsSkipFirst(r) == {i \in 2..Len(r.rows) : r.rows[i].len # r.nbFields}

BadRows(r) == {i \in 1..Len(r.rows) : r.rows[i].len # r.nbFields}

\* Rows.GetSource: [err, line, msg, idx]; line is the 0-based index named in
\* the error, msg the three numbers of its message (line, expected, got),
\* idx the index of the new cursor &Source{r: r} (the zero value)
GetSource(r) ==
    IF BadRows(r) # {}
    THEN LET i == Min(BadRows(r)) IN
         [err |-> TRUE, line |-> i - 1,
          msg |-> <<i - 1, r.nbFields, r.rows[i].len>>, idx |-> 0]
    ELSE [err |-> FALSE, line |-> 0, msg |-> <<>>, idx |-> 0]

\* Rows.Clear
ClearKeepRows(r) == [r EXCEPT !.pool = r.pool \cup Range(r.rows)]

Clear(r) == [r EXCEPT !.pool = r.pool \cup Range(r.rows), !.rows = <<>>]

\* Rows.Len
RowsLen(r) == Len(r.rows)

\* ------------------------------------------------------------- Source
\* Source.Next: [idx, more]
SourceNext(r, idx) == [idx |-> idx + 1, more |-> idx + 1 < RowsLen(r)]

\* Source.Values reads s.r.rows[s.idx] (0-based): in range or a panic
SourceInRange(r, idx) == 0 <= idx /\ idx < RowsLen(r)

SourceValues(r, idx) == RowVals(r, r.rows[idx + 1])

\* The row-source protocol of the sink (for rowSrc.Next() { rowSrc.Values() }):
\* the 0-based indexes Values is called with, starting from a cursor at idx.
RECURSIVE Drive(_, _)
Drive(r, idx) ==
    LET n == SourceNext(r, idx) IN
    IF n.more THEN <<n.idx>> \o Drive(r, n.idx) ELSE <<>>

\* ------------------------------------------------------------- state
VARIABLES
    \* SpecRows: one Rows buffer driven by an arbitrary caller
    rb,         \* the Rows object
    cur,        \* the cursor: [phase, idx]; phase idle | next | values | done
    got,        \* 0-based indexes Values was called with during the drive
    last,       \* the last call and what it returned
    \* Spec: uploadFilesPG, its workers and the files
    bsize,      \* the batchsize flag
    nbFiles,    \* len(fnames)
    nbInjectors,\* the parallel flag, also the pool's MaxConnections
    main,       \* the dispatcher: [pc, spawned, sent, closed, wg]
    wk,         \* per worker: the locals of uploadFilePG / uploadPG
    report,     \* per file: what uploadFilePG was called with and printed
    \* SpecUpload: one call of uploadPG, statement by statement
    up,         \* the locals of uploadPG
    \* SpecES: the file loop of push2esCmd.Run
    es,         \* [pc, nbFiles, file, i, queued, lines, flushes, cause]
    \* SpecMapping, SpecConvert, SpecEncode: one call of a function
    fn          \* its arguments, its locals and its result

varsRows == <<rb, cur, got, last>>

varsPG == <<bsize, nbFiles, nbInjectors, main, wk, report>>

vars == <<varsRows, varsPG, up, es, fn>>

\* the value a caller appends as field k of the row at position i: values
\* are opaque to Row and Rows, so one value per place is enough
CallerVal(i, k) == 10 * i + k

NoCall ==
    [op |-> "none", err |-> FALSE, full |-> FALSE, row |-> 0, fresh |-> FALSE,
     msg |-> <<>>]

IdleCur == [phase |-> "idle", idx |-> 0]

Workers == 1..MaxWorkers

Files == 1..MaxFiles

\* The locals of one call of uploadFilePG / uploadPG:
\*   pc        the statement reached;  file: the position of fname in fnames
\*   cols      curFieldNames;  conn: connections acquired and not released
\*   fac, row  factory and row;  nbLines: the counter returned
\*   err       the named result err, as last assigned
\*   retLines, retErr   what uploadPG returned
\* and, to state the properties, what has happened so far:
\*   yielded   lines NextTo has returned;  stream: how NextTo ended
\*   copies    the CopyFrom calls that succeeded: [held, sent, columns, rows]
\*             (rows in the batch at the call, number of rows the cursor
\*             delivered, the column names given, the rows delivered)
\*   gmt, names   p.HasGmtTime() and p.FieldNames()
\*   vacs      VACUUM commands issued
\*   errs      the errors calls have returned: "parse" (NextTo), "id"
\*             (uuid.NewV1), "append" (AddField), "source" (GetSource),
\*             "flush" (CopyFrom), "vacuum" (Exec)
\*   heldAll   exactly one connection was held at every statement since Acquire
\* A goroutine between two files has no locals.
Idle(pc) ==
    [pc |-> pc, file |-> 0, cols |-> <<>>, gmt |-> FALSE, names |-> <<>>,
     conn |-> 0, heldAll |-> TRUE,
     fac |-> RowFactory(0, 0), row |-> 0, nbLines |-> 0, err |-> "nil",
     yielded |-> 0,
     stream |-> "none", errs |-> {}, copies |-> <<>>, vacs |-> 0,
     retLines |-> 0, retErr |-> "nil"]

NoReport == [status |-> "none", calls |-> 0, by |-> {}]

RowsIdle ==
    /\ rb = RowFactory(0, 0)
    /\ cur = IdleCur
    /\ got = <<>>
    /\ last = NoCall

PGIdle ==
    /\ bsize = 1
    /\ nbFiles = 0
    /\ nbInjectors = 1
    /\ main = [pc |-> "done", spawned |-> 0, sent |-> 0, closed |-> FALSE, wg |-> 0]
    /\ wk = [w \in Workers |-> Idle("unborn")]
    /\ report = [f \in Files |-> NoReport]

UploadIdle == up = Idle("none")

FnIdle == fn = [op |-> "none"]

ESIdle ==
    es = [pc |-> "done", nbFiles |-> 0, file |-> 0, i |-> 0, queued |-> 0,
          lines |-> 0, flushes |-> 0, cause |-> "none"]

\* ------------------------------------------------------------- SpecRows
\* RowFactory(bsize, nbFields) as uploadPG calls it: a batchsize of 0 is
\* replaced by 5000 in Run, so maxSize is at least 1
InitRows ==
    /\ \E m \in 1..MaxBatch, n \in 0..MaxFields : rb = RowFactory(m, n)
    /\ cur = IdleCur
    /\ got = <<>>
    /\ last = NoCall
    /\ PGIdle
    /\ UploadIdle
    /\ ESIdle
    /\ FnIdle

\* the caller is not inside CopyFrom (the sink drives the cursor synchronously)
CallerRuns == cur.phase \in {"idle", "done"}

RGetRow ==
    /\ CallerRuns
    /\ \E g \in GetRow(rb) :
        /\ rb' = g.r
        /\ last' = [op |-> "GetRow", err |-> FALSE, full |-> g.full,
                    row |-> g.row, fresh |-> g.fresh, msg |-> <<>>]
    /\ cur' = IdleCur
    /\ got' = <<>>
    /\ UNCHANGED <<varsPG, up, es, fn>>

RAddField ==
    /\ CallerRuns
    /\ \E i \in 1..RowsLen(rb) :
        LET a == AddField(rb, i, CallerVal(i, rb.rows[i].len + 1)) IN
        /\ rb' = a.r
        /\ last' = [op |-> "AddField", err |-> a.err, full |-> FALSE,
                    row |-> i, fresh |-> FALSE,
                    msg |-> IF a.err THEN <<RowCap(rb, rb.rows[i])>> ELSE <<>>]
    /\ cur' = IdleCur
    /\ got' = <<>>
    /\ UNCHANGED <<varsPG, up, es, fn>>

RGetSource ==
    /\ CallerRuns
    /\ LET s == GetSource(rb) IN
        /\ last' = [op |-> "GetSource", err |-> s.err, full |-> FALSE,
                    row |-> s.line, fresh |-> FALSE, msg |-> s.msg]
        /\ cur' = IF s.err THEN IdleCur ELSE [phase |-> "next", idx |-> s.idx]
    /\ got' = <<>>
    /\ UNCHANGED <<rb, varsPG, up, es, fn>>

RNext ==
    /\ cur.phase = "next"
    /\ LET n == SourceNext(rb, cur.idx) IN
        cur' = [phase |-> IF n.more THEN "values" ELSE "done", idx |-> n.idx]
    /\ UNCHANGED <<rb, got, last, varsPG, up, es, fn>>

RValues ==
    /\ cur.phase = "values"
    /\ got' = Append(got, cur.idx)
    /\ cur' = [cur EXCEPT !.phase = IF SourceInRange(rb, cur.idx) THEN "next" ELSE "panic"]
    /\ UNCHANGED <<rb, last, varsPG, up, es, fn>>

RClear ==
    /\ CallerRuns
    /\ rb' = Clear(rb)
    /\ last' = [op |-> "Clear", err |-> FALSE, full |-> FALSE, row |-> 0,
                fresh |-> FALSE, msg |-> <<>>]
    /\ cur' = IdleCur
    /\ got' = <<>>
    /\ UNCHANGED <<varsPG, up, es, fn>>

NextRows ==
    \/ RGetRow
    \/ RAddField
    \/ RGetSource
    \/ RNext
    \/ RValues
    \/ RClear

SpecRows == InitRows /\ [][NextRows]_vars

\* ------------------------------------------------------------- uploadPG
\* the parser's field names: a header exposes a prefix of them
AllNames == <<"date", "time", "c-ip", "cs-uri", "sc-status">>

\* curFieldNames: "id", then "gmttime" unless the parser has a GMT time,
\* then the parser's fields
CurFieldNamesIdSecond(gmt, names) ==
    (IF gmt THEN <<>> ELSE <<"gmttime">>) \o (<<"id">> \o names)

CurFieldNames(gmt, names) ==
    <<"id">> \o ((IF gmt THEN <<>> ELSE <<"gmttime">>) \o names)

\* what ParseHeader can find: HasGmtTime() and the number of fields
Headers ==
    {h \in [gmt : BOOLEAN, k : 0..MaxFields] :
        Len(CurFieldNames(h.gmt, SubSeq(AllNames, 1, h.k))) <= MaxFields}

\* a number for each field name there is
FieldCode(name) ==
    LET all == <<"id", "gmttime">> \o AllNames
    IN CHOOSE i \in 1..Len(all) : all[i] = name

\* the value appended for the field name of line n (uuid.Bytes() for "id",
\* pgConvert(types[name], line.Get(name)) for the others): a different
\* value for every line and name
LineVal(n, name) == 10 * n + FieldCode(name)

\* pgKey(name): the name made fit for a column of the table
pgKey(name) ==
    CASE name = "c-ip" -> "c_ip"
      [] name = "cs-uri" -> "cs_uri"
      [] name = "sc-status" -> "sc_status"
      [] OTHER -> name

\* columnNames
ColumnNames(cols) == [i \in 1..Len(cols) |-> pgKey(cols[i])]

\* return n, err before the deferred Release is registered
ReturnEarly(l, n, err) ==
    [l EXCEPT !.pc = "report", !.err = err, !.retLines = n, !.retErr = err]

\* return n, err with defer connPool.Release(conn) left out
ReturnKeepConn(l, n, err) ==
    [l EXCEPT !.pc = "report", !.err = err, !.retLines = n, !.retErr = err]

\* return n, err after defer connPool.Release(conn): the connection goes back
Return(l, n, err) ==
    [l EXCEPT !.pc = "report", !.conn = @ - 1, !.err = err, !.retLines = n,
              !.retErr = err]

\* the closure uploadRows: the possible [fac, copies, err]; CopyFrom drives
\* the cursor by the row-source protocol and may fail
UploadRows(l) ==
    IF RowsLen(l.fac) = 0
    THEN {[fac |-> l.fac, copies |-> l.copies, err |-> "nil"]}
    ELSE LET s == GetSource(l.fac)
             d == Drive(l.fac, s.idx)
             call == [held |-> RowsLen(l.fac), sent |-> Len(d),
                      columns |-> ColumnNames(l.cols),
                      rows |-> [j \in 1..Len(d) |-> SourceValues(l.fac, d[j])]]
         IN IF s.err
            THEN {[fac |-> l.fac, copies |-> l.copies, err |-> "source"]}
            ELSE {[fac |-> Clear(l.fac), copies |-> Append(l.copies, call),
                   err |-> "nil"],
                  [fac |-> l.fac, copies |-> l.copies, err |-> "flush"]}

\* the loop over curFieldNames for line n, from column k on, filling the
\* row at position i: the possible [r, err] (uuid.NewV1 may fail)
RECURSIVE FillRow(_, _, _, _, _)
FillRow(r, i, cols, k, n) ==
    IF k > Len(cols)
    THEN {[r |-> r, err |-> "nil"]}
    ELSE LET a == AddField(r, i, LineVal(n, cols[k]))
             rest == IF a.err
                     THEN {[r |-> a.r, err |-> "append"]}
                     ELSE FillRow(a.r, i, cols, k + 1, n)
         IN IF cols[k] = "id" THEN {[r |-> r, err |-> "id"]} \cup rest ELSE rest

\* p.ParseHeader() and the column list
StepParseHeader(l) ==
    {ReturnEarly(l, 0, "header")}
    \cup {[l EXCEPT !.pc = "acquire", !.gmt = h.gmt,
                    !.names = SubSeq(AllNames, 1, h.k),
                    !.cols = CurFieldNames(h.gmt, SubSeq(AllNames, 1, h.k))] :
            h \in Headers}

\* connPool.Acquire() fails
StepAcquireErr(l) == ReturnEarly(l, 0, "acquire")

\* connPool.Acquire() succeeds; defer connPool.Release(conn); RowFactory
StepAcquireWide(l, bs) ==
    [l EXCEPT !.pc = "next", !.conn = @ + 1, !.fac = RowFactory(bs, Len(l.cols) + 1)]

StepAcquire(l, bs) ==
    [l EXCEPT !.pc = "next", !.conn = @ + 1, !.fac = RowFactory(bs, Len(l.cols))]

\* line, err = p.NextTo(line) ends the stream: (nil, nil) or an error; break
NextToEnd(l, how) ==
    [l EXCEPT !.stream = how, !.pc = "final",
              !.err = IF how = "perr" THEN "parse" ELSE "nil",
              !.errs = IF how = "perr" THEN @ \cup {"parse"} ELSE @]

\* p.NextTo(line): a line (then the first factory.GetRow()), the end of the
\* stream (nil, nil) or an error
StepNextTo(l) ==
    (IF l.yielded < MaxLines
     THEN {[l EXCEPT !.yielded = @ + 1, !.err = "nil", !.fac = g.r, !.row = g.row,
                     !.pc = IF g.full THEN "flush" ELSE "fill"] :
            g \in GetRow(l.fac)}
     ELSE {})
    \cup {NextToEnd(l, "eof"), NextToEnd(l, "perr")}

\* the batch is full: uploadRows(), then factory.GetRow() again
StepFlush(l) ==
    UNION {IF u.err # "nil"
           THEN {Return([l EXCEPT !.fac = u.fac, !.copies = u.copies,
                                  !.errs = @ \cup {u.err}], 0, u.err)}
           ELSE {[l EXCEPT !.fac = g.r, !.row = g.row, !.copies = u.copies,
                           !.err = "nil", !.pc = "fill"] : g \in GetRow(u.fac)} :
           u \in UploadRows(l)}

\* nbLines++ and the loop over curFieldNames
StepFill(l) ==
    {IF f.err # "nil"
     THEN Return([l EXCEPT !.fac = f.r, !.nbLines = @ + 1,
                           !.errs = @ \cup {f.err}], 0, f.err)
     ELSE [l EXCEPT !.fac = f.r, !.nbLines = @ + 1, !.err = "nil", !.pc = "next"] :
     f \in FillRow(l.fac, l.row, l.cols, 1, l.nbLines + 1)}

\* push remaining lines: err = uploadRows() after the loop
StepFinal(l) ==
    {IF u.err # "nil"
     THEN Return([l EXCEPT !.fac = u.fac, !.copies = u.copies,
                           !.errs = @ \cup {u.err}], 0, u.err)
     ELSE [l EXCEPT !.fac = u.fac, !.copies = u.copies, !.err = "nil",
                    !.pc = "vacuum"] :
     u \in UploadRows(l)}

\* conn.Exec("VACUUM;") and return nbLines, err
StepVacuum(l) ==
    {Return([l EXCEPT !.vacs = @ + 1, !.errs = @ \cup ({e} \ {"nil"})],
            l.nbLines, e) : e \in {"nil", "vacuum"}}

BodyPcs == {"next", "flush", "fill", "final", "vacuum"}

\* one statement of uploadPG after the Acquire
BodyStep(l) ==
    LET nxt == CASE l.pc = "next" -> StepNextTo(l)
                 [] l.pc = "flush" -> StepFlush(l)
                 [] l.pc = "fill" -> StepFill(l)
                 [] l.pc = "final" -> StepFinal(l)
                 [] l.pc = "vacuum" -> StepVacuum(l)
    IN {[x EXCEPT !.heldAll = l.heldAll /\ l.conn = 1] : x \in nxt}

\* uploadPG from the Acquire to its return: the possible locals at the return
RECURSIVE RunBody(_)
RunBody(l) ==
    IF l.pc \notin BodyPcs THEN {l} ELSE UNION {RunBody(x) : x \in BodyStep(l)}

\* the status line of uploadFilePG
ReportStatus(l) == IF l.retErr = "nil" THEN "ok" ELSE "error"

ReportLines(l) == IF l.retErr = "nil" THEN l.retLines ELSE 0

\* ------------------------------------------------------------- SpecUpload
InitUpload ==
    /\ bsize \in 1..MaxBatch
    /\ up = [Idle("header") EXCEPT !.file = 1]
    /\ nbFiles = 1
    /\ nbInjectors = 1
    /\ main = [pc |-> "done", spawned |-> 0, sent |-> 0, closed |-> FALSE, wg |-> 0]
    /\ wk = [w \in Workers |-> Idle("unborn")]
    /\ report = [f \in Files |-> NoReport]
    /\ RowsIdle
    /\ ESIdle
    /\ FnIdle

UFrame == UNCHANGED <<varsRows, varsPG, es, fn>>

UParseHeader ==
    /\ up.pc = "header"
    /\ up' \in StepParseHeader(up)
    /\ UFrame

UAcquire ==
    /\ up.pc = "acquire"
    /\ \/ up' = StepAcquireErr(up)
       \/ up' = StepAcquire(up, bsize)
    /\ UFrame

UNextTo ==
    /\ up.pc = "next"
    /\ up' \in BodyStep(up)
    /\ UFrame

UFlush ==
    /\ up.pc = "flush"
    /\ up' \in BodyStep(up)
    /\ UFrame

UFill ==
    /\ up.pc = "fill"
    /\ up' \in BodyStep(up)
    /\ UFrame

UFinal ==
    /\ up.pc = "final"
    /\ up' \in BodyStep(up)
    /\ UFrame

UVacuum ==
    /\ up.pc = "vacuum"
    /\ up' \in BodyStep(up)
    /\ UFrame

NextUpload ==
    \/ UParseHeader
    \/ UAcquire
    \/ UNextTo
    \/ UFlush
    \/ UFill
    \/ UFinal
    \/ UVacuum

SpecUpload == InitUpload /\ [][NextUpload]_vars

\* ------------------------------------------------------------- uploadFilesPG
\* connections of the pool that are acquired
Held ==
    LET RECURSIVE Sum(_)
        Sum(n) == IF n = 0 THEN 0 ELSE wk[n].conn + Sum(n - 1)
    IN Sum(MaxWorkers)

\* what a worker keeps of uploadPG once it has returned
Returned(l) ==
    [Idle("report") EXCEPT !.file = l.file, !.conn = l.conn, !.heldAll = l.heldAll,
                           !.retErr = l.retErr]

\* the column lists ParseHeader can produce
ColumnLists == {CurFieldNames(h.gmt, SubSeq(AllNames, 1, h.k)) : h \in Headers}

\* uploadPG from the Acquire to its return, for each batch size and column
\* list: what it can return.  The body reads nothing but its own locals, so
\* its results are worked out once, by running its statements (RunBody).
BodyResults ==
    [bs \in 1..MaxBatch, cols \in ColumnLists |->
        {Returned(l) :
            l \in RunBody(StepAcquire([Idle("acquire") EXCEPT !.cols = cols], bs))}]

PFrame == UNCHANGED <<bsize, nbFiles, nbInjectors, varsRows, up, es, fn>>

\* os.Open in uploadFilePG
Open(w) ==
    /\ wk[w].pc = "open"
    /\ \/ /\ wk' = [wk EXCEPT ![w].pc = "header"]
          /\ report' = [report EXCEPT ![wk[w].file].calls = @ + 1,
                                      ![wk[w].file].by = @ \cup {w}]
       \/ /\ wk' = [wk EXCEPT ![w] = Idle("recv")]
          /\ report' = [report EXCEPT ![wk[w].file].calls = @ + 1,
                                      ![wk[w].file].by = @ \cup {w},
                                      ![wk[w].file].status = "openerr"]
    /\ UNCHANGED main
    /\ PFrame

ParseHeader(w) ==
    /\ wk[w].pc = "header"
    /\ \E l \in StepParseHeader(wk[w]) : wk' = [wk EXCEPT ![w] = l]
    /\ UNCHANGED <<main, report>>
    /\ PFrame

\* connPool.Acquire() waits while all MaxConnections connections are out;
\* with one to be had it returns it, or the error of opening it
PoolHasConn(held, maxConnections) == held < maxConnections

Acquire(w) ==
    /\ wk[w].pc = "acquire"
    /\ PoolHasConn(Held, nbInjectors)
    /\ \/ wk' = [wk EXCEPT ![w] = StepAcquireErr(@)]
       \/ wk' = [wk EXCEPT ![w] = StepAcquire(@, bsize)]
    /\ UNCHANGED <<main, report>>
    /\ PFrame

\* the rest of uploadPG, which shares nothing with the other workers
Upload(w) ==
    /\ wk[w].pc = "next"
    /\ \E l \in BodyResults[wk[w].fac.maxSize, wk[w].cols] :
        wk' = [wk EXCEPT ![w] = [l EXCEPT !.file = wk[w].file]]
    /\ UNCHANGED <<main, report>>
    /\ PFrame

\* uploadFilePG after uploadPG: the status line; the worker loops
Report(w) ==
    /\ wk[w].pc = "report"
    /\ report' = [report EXCEPT ![wk[w].file].status = ReportStatus(wk[w])]
    /\ wk' = [wk EXCEPT ![w] = [Idle("recv") EXCEPT !.conn = wk[w].conn,
                                                   !.heldAll = wk[w].heldAll]]
    /\ UNCHANGED main
    /\ PFrame

\* the range loop over fnames is over
AllSentOffByOne(sent, n) == sent + 1 >= n

AllSent(sent, n) == sent = n

\* wg.Add(1); go func() {...}()
MainSpawn ==
    /\ main.pc = "spawn"
    /\ main' = [main EXCEPT !.spawned = @ + 1, !.wg = @ + 1,
                            !.pc = IF main.spawned + 1 < nbInjectors THEN "spawn"
                                   ELSE IF AllSent(main.sent, nbFiles) THEN "close"
                                   ELSE "send"]
    /\ wk' = [wk EXCEPT ![main.spawned + 1] = Idle("recv")]
    /\ UNCHANGED report
    /\ PFrame

\* fnamesChan <- fname meets fname, ok := <-fnamesChan (unbuffered channel)
Handoff(w) ==
    /\ main.pc = "send"
    /\ wk[w].pc = "recv"
    /\ main' = [main EXCEPT !.sent = @ + 1,
                            !.pc = IF AllSent(main.sent + 1, nbFiles) THEN "close"
                                   ELSE "send"]
    /\ wk' = [wk EXCEPT ![w] = [Idle("open") EXCEPT !.file = main.sent + 1,
                                                    !.conn = wk[w].conn,
                                                    !.heldAll = wk[w].heldAll]]
    /\ UNCHANGED report
    /\ PFrame

\* close(fnamesChan)
MainClose ==
    /\ main.pc = "close"
    /\ main' = [main EXCEPT !.closed = TRUE, !.pc = "wait"]
    /\ UNCHANGED <<wk, report>>
    /\ PFrame

\* defer wg.Done()
WgDoneMissing(n) == n

WgDone(n) == n - 1

\* the receive on the closed channel: !ok, return, deferred wg.Done()
WorkerExit(w) ==
    /\ wk[w].pc = "recv"
    /\ main.closed
    /\ wk' = [wk EXCEPT ![w].pc = "exited"]
    /\ main' = [main EXCEPT !.wg = WgDone(@)]
    /\ UNCHANGED report
    /\ PFrame

\* wg.Wait() returns
MainWait ==
    /\ main.pc = "wait"
    /\ main.wg = 0
    /\ main' = [main EXCEPT !.pc = "done"]
    /\ UNCHANGED <<wk, report>>
    /\ PFrame

\* push2pgCmd.Run: parallel and batchsize default when 0, at least one file
Init ==
    /\ bsize \in 1..MaxBatch
    /\ nbFiles \in 1..MaxFiles
    /\ nbInjectors \in 1..MaxWorkers
    /\ main = [pc |-> "spawn", spawned |-> 0, sent |-> 0, closed |-> FALSE, wg |-> 0]
    /\ wk = [w \in Workers |-> Idle("unborn")]
    /\ report = [f \in Files |-> NoReport]
    /\ RowsIdle
    /\ UploadIdle
    /\ ESIdle
    /\ FnIdle

Next ==
    \/ MainSpawn
    \/ MainClose
    \/ MainWait
    \/ \E w \in Workers :
        \/ Handoff(w)
        \/ WorkerExit(w)
        \/ Open(w)
        \/ ParseHeader(w)
        \/ Acquire(w)
        \/ Upload(w)
        \/ Report(w)

Spec == Init /\ [][Next]_vars

\* the dispatcher's statements and those of worker w
MainNext == MainSpawn \/ MainClose \/ MainWait

WorkerNext(w) ==
    \/ Handoff(w)
    \/ WorkerExit(w)
    \/ Open(w)
    \/ ParseHeader(w)
    \/ Acquire(w)
    \/ Upload(w)
    \/ Report(w)

\* Every goroutine that can run is eventually run by the Go scheduler, and
\* every call a worker makes for one file returns.
FairSpec ==
    /\ Init
    /\ [][Next]_vars
    /\ WF_vars(MainNext)
    /\ \A w \in Workers : WF_vars(WorkerNext(w))

\* ------------------------------------------------------------- push2esCmd.Run
\* the count of queued documents at which the loop flushes
BulkThreshold == 1000

\* lines a file may hold beyond the flush threshold
MaxOver == 1

\* fatal(err): the process ends if err is an error
Fatal(err) == err # "nil"

EFrame == UNCHANGED <<varsRows, varsPG, up, fn>>

\* for _, fname := range fnames: the next file, or the end of Run
EsNextFile(e) ==
    IF e.file = e.nbFiles
    THEN [e EXCEPT !.pc = "done", !.i = 0, !.lines = 0]
    ELSE [e EXCEPT !.pc = "open", !.file = @ + 1, !.i = 0, !.lines = 0]

\* fatal(proc.Flush()): the queue is sent, or the process ends; flushes
\* counts the calls of proc.Flush
EsFlush(e, err) ==
    IF Fatal(err)
    THEN [e EXCEPT !.pc = "exit", !.cause = "flush", !.flushes = @ + 1]
    ELSE [e EXCEPT !.queued = 0, !.flushes = @ + 1]

\* if i >= 1000
AtThresholdOver(i) == i > BulkThreshold

AtThreshold(i) == i >= BulkThreshold

InitES ==
    /\ \E n \in 1..MaxFiles :
        es = [pc |-> "open", nbFiles |-> n, file |-> 1, i |-> 0, queued |-> 0,
              lines |-> 0, flushes |-> 0, cause |-> "none"]
    /\ RowsIdle
    /\ PGIdle
    /\ UploadIdle
    /\ FnIdle

\* os.Open: on an error the message and continue
EsOpen ==
    /\ es.pc = "open"
    /\ \/ es' = [es EXCEPT !.pc = "header"]
       \/ es' = EsNextFile(es)
    /\ EFrame

\* p.ParseHeader(): on an error the message and continue
EsParseHeader ==
    /\ es.pc = "header"
    /\ \/ es' = [es EXCEPT !.pc = "lines"]
       \/ es' = EsNextFile(es)
    /\ EFrame

\* p.Next() returned a line: i++, proc.Add, and the flush at the threshold
EsLine ==
    /\ es.pc = "lines"
    /\ es.lines < BulkThreshold + MaxOver
    /\ \E err \in {"nil", "flush"} :
        LET e == [es EXCEPT !.i = @ + 1, !.queued = @ + 1, !.lines = @ + 1] IN
        es' = IF AtThreshold(e.i)
              THEN [EsFlush(e, err) EXCEPT !.i = IF Fatal(err) THEN e.i ELSE 0]
              ELSE e
    /\ EFrame

\* p.Next() returned no line or an error: break, and the flush of what is
\* queued
EsBreak ==
    /\ es.pc = "lines"
    /\ \E err \in {"nil", "flush"} :
        es' = IF es.i > 0
              THEN LET e == EsFlush(es, err) IN
                   IF e.pc = "exit" THEN e ELSE EsNextFile(e)
              ELSE EsNextFile(es)
    /\ EFrame

NextES ==
    \/ EsOpen
    \/ EsParseHeader
    \/ EsLine
    \/ EsBreak

SpecES == InitES /\ [][NextES]_vars

\* ------------------------------------------------------------- newMessageFields
\* longest list of field names explored
MaxNames == 2

\* field names given to newMessageFields: a name with a descriptor of its
\* own, the same name in another case, a plain name, and the names of the
\* two implicit fields
FieldNameUniverse == {"cs-host", "CS-Host", "x-custom", "@timestamp", "fulltext"}

\* names the excludes map may hold (with the value true)
ExcludeUniverse == {"cs-host", "CS-Host", "x-custom", "@timestamp", "fulltext"}

\* strings.ToLower on the names above
ToLower(name) == CASE name = "CS-Host" -> "cs-host" [] OTHER -> name

\* the values of parser.Kind the switches name, and any other value
Kinds ==
    {"MyDate", "MyIP", "MyTime", "MyTimestamp", "MyURI", "Float64", "Int64",
     "Bool", "String", "other"}

newDoubleField == [typ |-> "double", store |-> TRUE]

newBoolField == [typ |-> "boolean", store |-> TRUE]

newIPField == [typ |-> "ip", store |-> TRUE]

newLongField == [typ |-> "long", store |-> TRUE]

newMulti == [typ |-> "text", store |-> TRUE, copy |-> "fulltext", raw |-> "keyword"]

newKeyword(copyfull) ==
    [typ |-> "keyword", store |-> TRUE, copy |-> IF copyfull THEN "fulltext" ELSE ""]

newTextField(copyfull) ==
    [typ |-> "text", store |-> TRUE, copy |-> IF copyfull THEN "fulltext" ELSE ""]

newDateField == [typ |-> "date", format |-> "strict_date", store |-> TRUE]

newTimeField ==
    [typ |-> "date",
     format |-> "strict_time_no_millis||strict_time||strict_hour_minute_second||strict_hour_minute_second_fraction",
     store |-> TRUE]

newDatetimeField ==
    [typ |-> "date", format |-> "strict_date_time_no_millis||strict_date_time",
     store |-> TRUE]

\* the names of the first switch
SpecialNames == {"cs(user-agent)", "cs-host", "cs-uri-path", "cs-uri-query"}

SpecialField(name) ==
    IF name = "cs(user-agent)" THEN newTextField(TRUE) ELSE newMulti

\* the switch on parser.GuessType(name)
TypedField(kind) ==
    CASE kind = "MyDate" -> newDateField
      [] kind = "MyIP" -> newIPField
      [] kind = "MyTime" -> newTimeField
      [] kind = "MyTimestamp" -> newDatetimeField
      [] kind = "MyURI" -> newKeyword(FALSE)
      [] kind = "Float64" -> newDoubleField
      [] kind = "Int64" -> newLongField
      [] kind = "Bool" -> newBoolField
      [] kind = "String" -> newKeyword(TRUE)
      [] OTHER -> newKeyword(TRUE)

\* excludes[strings.ToLower(name)]
ExcludedExact(name, excludes) == name \in excludes

Excluded(name, excludes) == ToLower(name) \in excludes

\* fields[key] = d
PutField(fields, key, d) ==
    [k \in DOMAIN fields \cup {key} |-> IF k = key THEN d ELSE fields[k]]

\* fields["@timestamp"] = ...; fields["fulltext"] = ...
ImplicitFields(fields) ==
    PutField(PutField(fields, "@timestamp", newDatetimeField),
             "fulltext", [typ |-> "text", copy |-> "", store |-> FALSE])

InitMapping ==
    /\ \E names \in UNION {[1..n -> FieldNameUniverse] : n \in 0..MaxNames},
          excludes \in SUBSET ExcludeUniverse :
        fn = [op |-> "newMessageFields", names |-> names, excludes |-> excludes,
              k |-> 1, fields |-> <<>>, pc |-> "loop"]
    /\ RowsIdle
    /\ PGIdle
    /\ UploadIdle
    /\ ESIdle

FnFrame == UNCHANGED <<varsRows, varsPG, up, es>>

\* one iteration of FLoop; parser.GuessType belongs to the parser package
\* and may return any Kind
MapField ==
    /\ fn.op = "newMessageFields"
    /\ fn.pc = "loop"
    /\ fn.k <= Len(fn.names)
    /\ LET name == fn.names[fn.k] IN
        \E kind \in Kinds :
            fn' = [fn EXCEPT !.k = @ + 1,
                             !.fields =
                                 IF Excluded(name, fn.excludes) THEN @
                                 ELSE IF name \in SpecialNames
                                 THEN PutField(@, name, SpecialField(name))
                                 ELSE PutField(@, name, TypedField(kind))]
    /\ FnFrame

\* after the loop: the two implicit fields, return fields
MapImplicit ==
    /\ fn.op = "newMessageFields"
    /\ fn.pc = "loop"
    /\ fn.k > Len(fn.names)
    /\ fn' = [fn EXCEPT !.fields = ImplicitFields(@), !.pc = "done"]
    /\ FnFrame

NextMapping ==
    \/ MapField
    \/ MapImplicit

SpecMapping == InitMapping /\ [][NextMapping]_vars

\* ------------------------------------------------------------- pgConvert
\* Values are records tagged with their Go type (field t).  A string is the
\* sequence of its bytes.
GoNil == [t |-> "nil"]

StringValue(bytes) == [t |-> "string", s |-> bytes]

\* what line.Get(name) can hold for a field of each Kind: nil, or a value of
\* the type pgConvert asserts; zero is what the value's IsZero() reports
DateValues ==
    {[t |-> "parser.Date", zero |-> TRUE, year |-> 0, month |-> 0, day |-> 0]}
    \cup {[t |-> "parser.Date", zero |-> FALSE, year |-> y, month |-> m, day |-> d] :
            y \in {1, 2024}, m \in {1, 12}, d \in {1, 31}}

TimeValues ==
    {[t |-> "parser.Time", zero |-> (h = 0 /\ m = 0 /\ sec = 0 /\ ns = 0),
      hour |-> h, minute |-> m, second |-> sec, nanosecond |-> ns] :
        h \in {0, 23}, m \in {0, 59}, sec \in {0, 59}, ns \in {0, 999999999}}

TimestampValues ==
    {[t |-> "time.Time", zero |-> TRUE, instant |-> "0001-01-01T00:00:00Z"],
     [t |-> "time.Time", zero |-> FALSE, instant |-> "1970-01-01T00:00:00Z"],
     [t |-> "time.Time", zero |-> FALSE, instant |-> "2024-02-29T23:59:59Z"]}

IPValues == {[t |-> "net.IP", ip |-> a] : a \in {"127.0.0.1", "::1"}}

\* "", "a", the byte 0xE9 alone and after "c" (not UTF-8)
StringValues == {StringValue(b) : b \in {<<>>, <<97>>, <<233>>, <<99, 233>>}}

FloatValues == {[t |-> "float64", v |-> x] : x \in {0, 1}}

IntValues == {[t |-> "int64", v |-> x] : x \in {-1, 0, 1}}

BoolValues == {[t |-> "bool", v |-> x] : x \in BOOLEAN}

ValuesOf(kind) ==
    {GoNil} \cup
    (CASE kind = "MyDate" -> DateValues
       [] kind = "MyIP" -> IPValues
       [] kind = "MyTime" -> TimeValues
       [] kind = "MyTimestamp" -> TimestampValues
       [] kind = "Float64" -> FloatValues
       [] kind = "Int64" -> IntValues
       [] kind = "Bool" -> BoolValues
       [] OTHER -> StringValues)

\* utf8.ValidString on the strings above: a byte of 0x80 or more that no
\* continuation byte follows is not UTF-8
Utf8Valid(bytes) == \A i \in 1..Len(bytes) : bytes[i] < 128

\* isoDecoder.String: every byte is a character, written in UTF-8 (for the
\* bytes above ISO 8859-15 is Latin-1)
RECURSIVE IsoDecode(_)
IsoDecode(bytes) ==
    IF bytes = <<>> THEN <<>>
    ELSE (IF Head(bytes) < 128 THEN <<Head(bytes)>>
          ELSE <<192 + (Head(bytes) \div 64), 128 + (Head(bytes) % 64)>>)
         \o IsoDecode(Tail(bytes))

decodeCharset(bytes) == IF Utf8Valid(bytes) THEN bytes ELSE IsoDecode(bytes)

\* &pgtype.X{Status: pgtype.Null}
PgNull(type) == [t |-> type, status |-> "Null"]

\* pgDefaultVal with the MyTime case missing
pgDefaultValNoTime(kind) ==
    CASE kind = "MyDate" -> PgNull("pgtype.Date")
      [] kind = "MyIP" -> PgNull("pgtype.Inet")
      [] kind = "MyTimestamp" -> PgNull("pgtype.Timestamptz")
      [] kind = "Float64" -> PgNull("pgtype.Float8")
      [] kind = "Int64" -> PgNull("pgtype.Int8")
      [] kind = "Bool" -> PgNull("pgtype.Bool")
      [] OTHER -> StringValue(<<>>)

pgDefaultVal(kind) ==
    CASE kind = "MyDate" -> PgNull("pgtype.Date")
      [] kind = "MyIP" -> PgNull("pgtype.Inet")
      [] kind = "MyTime" -> [t |-> "*MyMyTime", ptr |-> "nil"]
      [] kind = "MyTimestamp" -> PgNull("pgtype.Timestamptz")
      [] kind = "MyURI" -> StringValue(<<>>)
      [] kind = "Float64" -> PgNull("pgtype.Float8")
      [] kind = "Int64" -> PgNull("pgtype.Int8")
      [] kind = "Bool" -> PgNull("pgtype.Bool")
      [] kind = "String" -> StringValue(<<>>)
      [] OTHER -> StringValue(<<>>)

pgConvert(kind, value) ==
    IF value = GoNil THEN pgDefaultVal(kind)
    ELSE CASE kind = "MyDate" ->
                IF value.zero THEN pgDefaultVal(kind)
                ELSE [t |-> "time.Time", year |-> value.year, month |-> value.month,
                      day |-> value.day, hour |-> 0, minute |-> 0, second |-> 0,
                      nanosecond |-> 0, loc |-> "UTC"]
           [] kind = "MyIP" ->
                [t |-> "pgtype.Inet", status |-> "Present", ip |-> value.ip]
           [] kind = "MyTime" ->
                IF value.zero THEN pgDefaultVal(kind)
                ELSE [t |-> "*MyMyTime", ptr |-> "set", time |-> value]
           [] kind = "MyTimestamp" ->
                IF value.zero THEN pgDefaultVal(kind)
                ELSE [t |-> "pgtype.Timestamptz", status |-> "Present", time |-> value]
           [] kind = "MyURI" -> StringValue(decodeCharset(value.s))
           [] kind = "Float64" -> value
           [] kind = "Int64" -> value
           [] kind = "Bool" -> value
           [] kind = "String" -> StringValue(decodeCharset(value.s))
           [] OTHER -> StringValue(decodeCharset(value.s))

InitConvert ==
    /\ \E kind \in Kinds : \E value \in ValuesOf(kind) :
        fn = [op |-> "pgConvert", kind |-> kind, value |-> value,
              result |-> GoNil, pc |-> "call"]
    /\ RowsIdle
    /\ PGIdle
    /\ UploadIdle
    /\ ESIdle

Convert ==
    /\ fn.op = "pgConvert"
    /\ fn.pc = "call"
    /\ fn' = [fn EXCEPT !.result = pgConvert(fn.kind, fn.value), !.pc = "done"]
    /\ FnFrame

NextConvert == Convert

SpecConvert == InitConvert /\ [][NextConvert]_vars

\* ------------------------------------------------------------- EncodeBinary
\* An int64 is the sequence of its 8 bytes, most significant first (what
\* pgio.AppendInt64 writes); sums and products are taken modulo 2^64.
usecsPerMinute == 60000000

usecsPerSec == 1000000

nanosecsPerUsec == 1000

\* int64(x) for an int x of 0..2^31-1
Int64(x) ==
    [i \in 1..8 |->
        CASE i <= 4 -> 0
          [] i = 5 -> (x \div 16777216) % 256
          [] i = 6 -> (x \div 65536) % 256
          [] i = 7 -> (x \div 256) % 256
          [] OTHER -> x % 256]

\* 3600000000 = 0xD693A400
usecsPerHour == <<0, 0, 0, 0, 214, 147, 164, 0>>

\* byte k of an int64, counted from the least significant (k = 0)
Byte(a, k) == a[8 - k]

Reverse(q) == [i \in 1..Len(q) |-> q[Len(q) + 1 - i]]

\* bytes k..7 of a + b, least significant first, with carry c into byte k
RECURSIVE AddFrom(_, _, _, _)
AddFrom(a, b, k, c) ==
    IF k > 7 THEN <<>>
    ELSE LET t == Byte(a, k) + Byte(b, k) + c
         IN <<t % 256>> \o AddFrom(a, b, k + 1, t \div 256)

\* a + b on int64
Add64(a, b) == Reverse(AddFrom(a, b, 0, 0))

\* the sum of the byte products that fall on byte k of a * b
RECURSIVE Column(_, _, _, _)
Column(a, b, k, i) ==
    IF i > k THEN 0 ELSE Byte(a, i) * Byte(b, k - i) + Column(a, b, k, i + 1)

\* bytes k..7 of a * b, least significant first, with carry c into byte k
RECURSIVE MulFrom(_, _, _, _)
MulFrom(a, b, k, c) ==
    IF k > 7 THEN <<>>
    ELSE LET t == Column(a, b, k, 0) + c
         IN <<t % 256>> \o MulFrom(a, b, k + 1, t \div 256)

\* a * b on int64, done in 32 bits
Mul64Low32(a, b) ==
    LET m == Reverse(MulFrom(a, b, 0, 0)) IN [i \in 1..8 |-> IF i <= 4 THEN 0 ELSE m[i]]

\* a * b on int64
Mul64(a, b) == Reverse(MulFrom(a, b, 0, 0))

\* a byte slice: nil, or its bytes
NilSlice == [nil |-> TRUE, bytes |-> <<>>]

Slice(bytes) == [nil |-> FALSE, bytes |-> bytes]

\* pgio.AppendInt64(buf, n)
AppendInt64(buf, n) == Slice(buf.bytes \o n)

\* the receivers of EncodeBinary: the nil *MyMyTime, or a time of day
NilTime == [ptr |-> "nil"]

TimesOfDay ==
    {[ptr |-> "set", hour |-> h, minute |-> m, second |-> sec, nanosecond |-> ns] :
        h \in 0..23, m \in {0, 1, 59}, sec \in {0, 1, 59},
        ns \in {0, 999, 1000, 999999999}}

\* MyMyTime.EncodeBinary: the buffer returned
EncodeBinary(src, buf) ==
    IF src = NilTime THEN NilSlice
    ELSE AppendInt64(buf,
            Add64(Add64(Add64(Mul64(Int64(src.hour), usecsPerHour),
                              Mul64(Int64(src.minute), Int64(usecsPerMinute))),
                        Mul64(Int64(src.second), Int64(usecsPerSec))),
                  Int64(src.nanosecond \div nanosecsPerUsec)))

InitEncode ==
    /\ \E src \in {NilTime} \cup TimesOfDay,
          buf \in {NilSlice, Slice(<<>>), Slice(<<7>>)} :
        fn = [op |-> "EncodeBinary", src |-> src, buf |-> buf, out |-> NilSlice,
              pc |-> "call"]
    /\ RowsIdle
    /\ PGIdle
    /\ UploadIdle
    /\ ESIdle

Encode ==
    /\ fn.op = "EncodeBinary"
    /\ fn.pc = "call"
    /\ fn' = [fn EXCEPT !.out = EncodeBinary(fn.src, fn.buf), !.pc = "done"]
    /\ FnFrame

NextEncode == Encode

SpecEncode == InitEncode /\ [][NextEncode]_vars

\* ------------------------------------------------------------- properties
\* the uploadPG call has returned having read its stream to the clean end
\* with every CopyFrom successful
StreamedAll(l) ==
    /\ l.pc = "report"
    /\ l.stream = "eof"
    /\ l.errs \cap {"flush", "source"} = {}

CeilDiv(a, b) == (a + b - 1) \div b

\* C1 (SpecUpload): when the parser yields L lines and then the clean end of
\* the stream, and every CopyFrom succeeds, with batch size B the sink gets
\* ceil(L/B) CopyFrom calls (none for L = 0); the batch holds B rows at every
\* call but the last and L mod B rows (B if B divides L) at the last; the
\* line count uploadPG returns is L.
C1_FlushCadence ==
    StreamedAll(up) =>
        LET L == up.yielded
            B == bsize
            n == Len(up.copies)
        IN /\ n = CeilDiv(L, B)
           /\ \A j \in 1..(n - 1) : up.copies[j].held = B
           /\ n > 0 => up.copies[n].held = (IF L % B = 0 THEN B ELSE L % B)
           /\ up.retLines = L

\* C1 witness: 3 lines with batch size 2 were uploaded in 2 calls, reported ok
C1_Witness ==
    /\ StreamedAll(up)
    /\ up.retErr = "nil"
    /\ bsize = 2
    /\ up.yielded = 3
    /\ Len(up.copies) = 2

\* C2 (SpecRows): driven by the row-source protocol, the cursor of a batch
\* of n rows yields rows[0..n-1], each once and in order, and Values is
\* never called with an index outside the batch.
C2_CursorStreamsBatch ==
    /\ cur.phase # "panic"
    /\ cur.phase = "done" => got = [i \in 1..RowsLen(rb) |-> i - 1]

\* C3 (SpecUpload): whenever NextTo returned an error during streaming, or
\* AddField or CopyFrom returned an error, uploadPG returns a non-nil error
\* and the file is reported as failed.
C3_ErrorsFailTheFile ==
    (up.pc = "report" /\ up.errs \cap {"parse", "append", "flush"} # {}) =>
        (up.retErr # "nil" /\ ReportStatus(up) = "error")

\* C4 (Spec): every filename of the list is handed to uploadFilePG at most
\* once, by one worker, no two workers hold the same file, and once
\* uploadFilesPG has returned every filename was handed exactly once.
C4_EachFileOnce ==
    /\ \A f \in Files :
        /\ report[f].calls <= 1
        /\ Cardinality(report[f].by) = report[f].calls
        /\ f > nbFiles => report[f].calls = 0
    /\ \A w, v \in Workers :
        (wk[w].file # 0 /\ wk[w].file = wk[v].file) => w = v
    /\ main.pc = "done" => \A f \in 1..nbFiles : report[f].calls = 1

\* C4 witness: two workers shared two files, one of which failed
C4_Witness ==
    /\ main.pc = "done"
    /\ nbFiles = 2
    /\ report[1].by # report[2].by
    /\ report[1].calls = 1 /\ report[2].calls = 1
    /\ \E f \in 1..2 : report[f].status \in {"error", "openerr"}

\* C5 (SpecES): an open, header, parse or flush error on one file never
\* ends the process and never keeps the remaining files from being
\* processed: a relational worker stops only on the closed channel, and the
\* index loop never leaves through fatal.
C5_FileErrorsContained ==
    /\ \A w \in Workers : wk[w].pc = "exited" => main.closed
    /\ es.pc # "exit"

\* C6 (FairSpec): uploadFilesPG returns; the channel is closed only after
\* the last filename was received; it returns only when every worker has
\* exited, every filename was received and every file was dealt with.
C6_DispatcherTerminates ==
    /\ <>(main.pc = "done")
    /\ [](main.closed => main.sent = nbFiles)
    /\ [](main.pc = "done" =>
            /\ main.closed
            /\ \A w \in 1..nbInjectors : wk[w].pc = "exited"
            /\ \A f \in 1..nbFiles : report[f].status # "none")

\* C6 witness: uploadFilesPG returned with two workers and two files
C6_Witness ==
    /\ main.pc = "done"
    /\ nbInjectors = 2
    /\ nbFiles = 2
    /\ \A w \in 1..2 : wk[w].pc = "exited"

\* C7 (Spec): a worker holds at most one connection, exactly one from the
\* successful Acquire to the return of uploadPG and none on any return
\* path or between files; the connections held never exceed MaxConnections
\* (the worker count), and a worker at Acquire never finds the pool empty.
C7_ConnectionDiscipline ==
    /\ \A w \in Workers :
        /\ wk[w].conn <= 1
        /\ wk[w].pc = "next" => wk[w].conn = 1
        /\ wk[w].pc # "next" => wk[w].conn = 0
        /\ wk[w].heldAll
        /\ wk[w].pc = "acquire" => PoolHasConn(Held, nbInjectors)
    /\ Held <= nbInjectors

\* C7 witness: one worker has returned from a failed flush with its
\* connection released while the other holds its own
C7_Witness ==
    \E w, v \in Workers :
        /\ wk[w].pc = "report" /\ wk[w].retErr = "flush" /\ wk[w].conn = 0
        /\ wk[v].pc = "next" /\ wk[v].conn = 1

\* C8 (SpecRows): GetRow returns (nil, true) exactly when Len() = maxSize,
\* and then leaves batch and pool as they were; otherwise it returns
\* wasFull = false and a row of length 0 and capacity nbFields that is the
\* new last row of the batch, the rows before it untouched.
C8_GetRow ==
    [][RGetRow =>
        /\ last'.full <=> RowsLen(rb) = rb.maxSize
        /\ last'.full => (rb' = rb /\ last'.row = 0)
        /\ ~last'.full =>
            /\ RowsLen(rb') = RowsLen(rb) + 1
            /\ last'.row = RowsLen(rb')
            /\ rb'.rows[last'.row].len = 0
            /\ RowCap(rb', rb'.rows[last'.row]) = rb.nbFields
            /\ SubSeq(rb'.rows, 1, RowsLen(rb)) = rb.rows
            /\ \A i \in 1..RowsLen(rb) :
                RowVals(rb', rb'.rows[i]) = RowVals(rb, rb.rows[i])]_vars

\* C8 witness: GetRow refused a full batch while the pool held a row
C8_Witness ==
    /\ last.op = "GetRow"
    /\ last.full
    /\ rb.maxSize >= 1
    /\ rb.pool # {}

\* C9 (SpecRows): after any sequence of GetRow, AddField, GetSource and
\* Clear, 0 <= Len() <= maxSize.
C9_BatchBound == 0 <= RowsLen(rb) /\ RowsLen(rb) <= rb.maxSize

\* C9 witness: the batch was filled to maxSize again after a Clear
C9_Witness ==
    /\ RowsLen(rb) = rb.maxSize
    /\ rb.maxSize = MaxBatch
    /\ last.op = "GetRow"
    /\ ~last.fresh

\* C10 (SpecRows): AddField on a row of the batch appends exactly the value
\* given while the row holds fewer than nbFields values, and otherwise
\* returns the error and leaves the buffer unchanged.
C10_AddFieldWidth ==
    [][RAddField =>
        LET i == last'.row
            row == rb.rows[i]
        IN IF row.len < rb.nbFields
           THEN /\ ~last'.err
                /\ RowVals(rb', rb'.rows[i]) =
                       Append(RowVals(rb, row), CallerVal(i, row.len + 1))
                /\ \A j \in 1..RowsLen(rb) \ {i} :
                       RowVals(rb', rb'.rows[j]) = RowVals(rb, rb.rows[j])
                /\ RowsLen(rb') = RowsLen(rb)
           ELSE last'.err /\ rb' = rb]_vars

\* C10 witness: AddField was refused on a full row taken from the pool
C10_Witness ==
    /\ last.op = "AddField"
    /\ last.err
    /\ rb.nbFields = MaxFields
    /\ rb.rows[last.row].len = rb.nbFields
    /\ rb.pool # {}

\* C11 (SpecRows): GetSource returns an error exactly when some row of the
\* batch holds a number of values other than nbFields; the error names the
\* first such row (0-based) with nbFields and the row's length; otherwise a
\* cursor is returned; the batch is never changed.
C11_GetSourceValidation ==
    [][RGetSource =>
        LET bad == {i \in 0..(RowsLen(rb) - 1) : rb.rows[i + 1].len # rb.nbFields}
        IN /\ last'.err <=> bad # {}
           /\ last'.err =>
                \E i \in bad :
                    /\ \A j \in bad : i <= j
                    /\ last'.msg = <<i, rb.nbFields, rb.rows[i + 1].len>>
           /\ ~last'.err => (cur'.phase = "next" /\ last'.msg = <<>>)
           /\ rb' = rb]_vars

\* C11 witness: GetSource refused a batch whose first row is complete and
\* whose second row is short
C11_Witness ==
    /\ last.op = "GetSource"
    /\ last.err
    /\ rb.nbFields >= 1
    /\ last.msg = <<1, rb.nbFields, rb.nbFields - 1>>

\* what Clear does to the buffer, apart from where the next row comes from
ClearEffect ==
    RClear =>
        /\ RowsLen(rb') = 0
        /\ rb'.maxSize = rb.maxSize
        /\ rb'.nbFields = rb.nbFields
        /\ Range(rb.rows) \subseteq rb'.pool
        /\ rb.pool \subseteq rb'.pool

\* the GetRow that follows a Clear succeeds with an empty row of width nbFields
GetRowAfterClear ==
    (last.op = "Clear" /\ RGetRow) =>
        /\ ~last'.full
        /\ RowsLen(rb') = 1
        /\ rb'.rows[1].len = 0
        /\ RowCap(rb', rb'.rows[1]) = rb.nbFields

\* C12 as stated (SpecRows): after Clear, Len() = 0, maxSize and nbFields
\* are unchanged, every row of the batch is in the pool, and the next GetRow
\* succeeds with an empty row of capacity nbFields that comes from the pool
\* and is not newly allocated.
C12_PoolReuse ==
    [][/\ ClearEffect
       /\ GetRowAfterClear
       /\ (last.op = "Clear" /\ RGetRow) =>
            /\ ~last'.fresh
            /\ \E it \in rb.pool : it.buf = rb'.rows[1].buf /\ it \notin rb'.pool]_vars

\* C12 amended (SpecRows): as above, but the row the next GetRow returns is
\* either one of the rows put to the pool, taken out of it, or a newly
\* allocated one (the pool was empty, or it did not give a pooled row back).
C12_ClearResets ==
    [][/\ ClearEffect
       /\ GetRowAfterClear
       /\ (last.op = "Clear" /\ RGetRow) =>
            \/ /\ ~last'.fresh
               /\ \E it \in rb.pool :
                    /\ it.buf = rb'.rows[1].buf
                    /\ rb'.pool = rb.pool \ {it}
            \/ /\ last'.fresh
               /\ rb'.pool \subseteq rb.pool
               /\ rb'.heap[rb'.rows[1].buf] = PoolNew(rb.nbFields)]_vars

\* C12 witness: right after the Clear of a full batch of filled rows, GetRow
\* returned one of them, emptied, and the other is still pooled
C12_Witness ==
    /\ last.op = "GetRow"
    /\ ~last.fresh
    /\ ~last.full
    /\ RowsLen(rb) = 1
    /\ rb.rows[1].len = 0
    /\ rb.nbFields = MaxFields
    /\ \E it \in rb.pool : it.len = MaxFields

\* C13 (SpecUpload): VACUUM is issued at most once, only after the line
\* stream was read to its end and every flush, the trailing one included,
\* has succeeded and emptied the buffer; after a failed flush or append
\* uploadPG has returned with no VACUUM issued and the buffer not reset; a
\* failed VACUUM is the error the file is reported with, its batches flushed.
C13_VacuumOrdering ==
    /\ up.vacs <= 1
    /\ up.vacs = 1 =>
        /\ up.stream = "eof"
        /\ up.errs \cap {"flush", "source", "append", "id"} = {}
        /\ RowsLen(up.fac) = 0
        /\ \A j \in 1..Len(up.copies) : up.copies[j].held >= 1
    /\ up.errs \cap {"flush", "append"} # {} =>
        /\ up.pc = "report"
        /\ up.vacs = 0
        /\ RowsLen(up.fac) >= 1
        /\ up.retErr \in {"flush", "append"}
    /\ "vacuum" \in up.errs =>
        /\ up.pc = "report"
        /\ up.retErr = "vacuum"
        /\ ReportStatus(up) = "error"
        /\ RowsLen(up.fac) = 0

\* C14 (SpecES): the documents queued and not flushed never exceed 1000;
\* none is queued between two files, and the count i starts each file at 0;
\* a line that brings the queue to 1000 documents is followed at once by a
\* flush, and no other line is; when the lines of a file end, a flush is
\* called exactly when a document is queued.
C14_IndexFlushPolicy ==
    /\ [](/\ es.queued <= BulkThreshold
          /\ es.pc \in {"open", "header", "done"} => (es.queued = 0 /\ es.i = 0)
          /\ es.pc # "exit" => es.i = es.queued)
    /\ [][EsLine =>
            /\ es'.flushes - es.flushes = (IF es.queued + 1 = BulkThreshold THEN 1 ELSE 0)
            /\ es'.flushes = es.flushes => es'.queued = es.queued + 1]_vars
    /\ [][EsBreak =>
            es'.flushes - es.flushes = (IF es.queued >= 1 THEN 1 ELSE 0)]_vars

\* C14 witness: the second file is past its 1000th line, flushed at the
\* threshold, after a first file whose lines were flushed at its end
C14_Witness ==
    /\ es.pc = "lines"
    /\ es.file = 2
    /\ es.lines = BulkThreshold + 1
    /\ es.queued = 1
    /\ es.flushes = 2

\* C15 (SpecMapping): the keys of the mapping newMessageFields returns are
\* the names whose lower-cased form is not in the exclude set, together
\* with "@timestamp" and "fulltext"; these two carry the datetime descriptor
\* and the text descriptor that is not stored and has no copy_to, whatever
\* the names and the exclude set.
C15_MappingMembership ==
    (fn.op = "newMessageFields" /\ fn.pc = "done") =>
        /\ DOMAIN fn.fields =
               {fn.names[i] : i \in {j \in 1..Len(fn.names) :
                                        ToLower(fn.names[j]) \notin fn.excludes}}
               \cup {"@timestamp", "fulltext"}
        /\ fn.fields["@timestamp"] =
               [typ |-> "date", store |-> TRUE,
                format |-> "strict_date_time_no_millis||strict_date_time"]
        /\ fn.fields["fulltext"] = [typ |-> "text", store |-> FALSE, copy |-> ""]

\* C15 witness: a mapping was built from a name excluded through its lower
\* case and a field named like an implicit field, with the implicit field
\* itself in the exclude set
C15_Witness ==
    /\ fn.op = "newMessageFields"
    /\ fn.pc = "done"
    /\ fn.names = <<"CS-Host", "fulltext">>
    /\ fn.excludes = {"cs-host", "@timestamp"}
    /\ DOMAIN fn.fields = {"@timestamp", "fulltext"}

\* the typed null markers, by Kind
TypedNulls ==
    [k \in {"MyDate", "MyIP", "MyTime", "MyTimestamp", "Float64", "Int64", "Bool"} |->
        CASE k = "MyDate" -> [t |-> "pgtype.Date", status |-> "Null"]
          [] k = "MyIP" -> [t |-> "pgtype.Inet", status |-> "Null"]
          [] k = "MyTime" -> [t |-> "*MyMyTime", ptr |-> "nil"]
          [] k = "MyTimestamp" -> [t |-> "pgtype.Timestamptz", status |-> "Null"]
          [] k = "Float64" -> [t |-> "pgtype.Float8", status |-> "Null"]
          [] k = "Int64" -> [t |-> "pgtype.Int8", status |-> "Null"]
          [] k = "Bool" -> [t |-> "pgtype.Bool", status |-> "Null"]]

\* what nil converts to for a Kind
NullFor(kind) ==
    IF kind \in DOMAIN TypedNulls THEN TypedNulls[kind] ELSE [t |-> "string", s |-> <<>>]

\* C16 (SpecConvert): pgConvert(kind, nil) is the typed null of the kind,
\* the seven typed nulls being distinct, and the empty string for URI,
\* String and any other kind; a Date, Time or Timestamp that reports IsZero()
\* converts to what nil converts to, and one that does not converts to a
\* temporal value that is not null and carries the value's fields.
C16_NullAndZero ==
    /\ \A k1, k2 \in DOMAIN TypedNulls : k1 # k2 => TypedNulls[k1] # TypedNulls[k2]
    /\ (fn.op = "pgConvert" /\ fn.pc = "done") =>
        /\ fn.value = GoNil => fn.result = NullFor(fn.kind)
        /\ (fn.kind \in {"MyDate", "MyTime", "MyTimestamp"} /\ fn.value # GoNil) =>
            IF fn.value.zero
            THEN fn.result = NullFor(fn.kind)
            ELSE /\ fn.result # NullFor(fn.kind)
                 /\ fn.kind = "MyDate" =>
                        /\ fn.result.t = "time.Time"
                        /\ <<fn.result.year, fn.result.month, fn.result.day>> =
                               <<fn.value.year, fn.value.month, fn.value.day>>
                 /\ fn.kind = "MyTime" =>
                        /\ fn.result.t = "*MyMyTime"
                        /\ fn.result.ptr # "nil"
                        /\ fn.result.time = fn.value
                 /\ fn.kind = "MyTimestamp" =>
                        /\ fn.result.t = "pgtype.Timestamptz"
                        /\ fn.result.status = "Present"
                        /\ fn.result.time = fn.value

\* C16 witness: a zero time of day was converted to the nil *MyMyTime
C16_Witness ==
    /\ fn.op = "pgConvert"
    /\ fn.pc = "done"
    /\ fn.kind = "MyTime"
    /\ fn.value # GoNil
    /\ fn.value.zero
    /\ fn.result = [t |-> "*MyMyTime", ptr |-> "nil"]

\* the rows the sink was given by the CopyFrom calls so far: <<call, position>>
Delivered(l) ==
    {<<c, j>> : c \in 1..Len(l.copies), j \in 1..MaxBatch} \cap
    {x \in (1..Len(l.copies)) \X (1..MaxBatch) : x[2] <= Len(l.copies[x[1]].rows)}

\* C17 (SpecUpload): the column list is "id", then "gmttime" exactly when
\* the parser has no GMT time, then the parser's fields in its order; every
\* CopyFrom is given the sanitized names in that order, and every row it is
\* given holds, at each position, the value made for that position's field
\* of one line; the id values of the rows given differ from row to row.
C17_ColumnAlignment ==
    up.cols # <<>> =>
        /\ up.cols[1] = "id"
        /\ ~up.gmt <=> (Len(up.cols) >= 2 /\ up.cols[2] = "gmttime")
        /\ SubSeq(up.cols, (IF up.gmt THEN 2 ELSE 3), Len(up.cols)) = up.names
        /\ \A c \in 1..Len(up.copies) :
            /\ up.copies[c].columns = [i \in 1..Len(up.cols) |-> pgKey(up.cols[i])]
            /\ up.copies[c].columns[1] = "id"
        /\ \A x \in Delivered(up) :
            LET row == up.copies[x[1]].rows[x[2]] IN
            /\ Len(row) = Len(up.copies[x[1]].columns)
            /\ \E n \in 1..up.nbLines :
                \A i \in 1..Len(row) : row[i] = 10 * n + FieldCode(up.cols[i])
        /\ \A x, y \in Delivered(up) :
            x # y => up.copies[x[1]].rows[x[2]][1] # up.copies[y[1]].rows[y[2]][1]

\* C17 witness: two CopyFrom calls have each delivered a row of id, gmttime
\* and one parsed field
C17_Witness ==
    /\ up.pc = "report"
    /\ up.retErr = "nil"
    /\ ~up.gmt
    /\ up.names = <<"date">>
    /\ Cardinality(Delivered(up)) = 2
    /\ up.copies[1].columns = <<"id", "gmttime", "date">>

\* C18 (SpecUpload): whenever uploadPG is about to call uploadRows, and so
\* GetSource, every row of the batch holds nbFields values; GetSource never
\* returns its error; a row is short only while it is being filled, or when
\* uploadPG has returned the error that kept it from being filled.
C18_RowsCompleteAtFlush ==
    /\ "source" \notin up.errs
    /\ up.pc \in {"flush", "final"} => BadRows(up.fac) = {}
    /\ BadRows(up.fac) # {} =>
        \/ up.pc = "fill" /\ BadRows(up.fac) = {RowsLen(up.fac)}
        \/ /\ up.pc = "report"
           /\ up.retErr \in {"id", "append"}
           /\ up.vacs = 0

\* C18 witness: after two flushes of complete rows a row could not be
\* given its id, and uploadPG returned that error
C18_Witness ==
    /\ up.pc = "report"
    /\ up.retErr = "id"
    /\ Len(up.copies) = 2
    /\ BadRows(up.fac) # {}

\* C19 (SpecRows): no backing array is referenced by two rows of the batch,
\* and none referenced by a row of the batch is in the pool; an AddField on
\* one row leaves the values of every other row of the batch as they were.
C19_NoAliasing ==
    /\ [](/\ \A i, j \in 1..RowsLen(rb) : i # j => rb.rows[i].buf # rb.rows[j].buf
          /\ \A i \in 1..RowsLen(rb) : \A it \in rb.pool : it.buf # rb.rows[i].buf)
    /\ [][RAddField =>
            \A j \in 1..RowsLen(rb) :
                j # last'.row =>
                    /\ rb'.rows[j] = rb.rows[j]
                    /\ rb'.heap[rb.rows[j].buf] = rb.heap[rb.rows[j].buf]]_vars

\* C19 witness: both rows of the batch were taken back from the pool after
\* a Clear, the first one filled before the second was taken
C19_Witness ==
    /\ last.op = "GetRow"
    /\ ~last.fresh
    /\ RowsLen(rb) = 2
    /\ rb.rows[1].len >= 1
    /\ rb.pool = {}

\* the big-endian number b divided by 1000000, from byte i on with remainder
\* rem so far: the bytes of the quotient and the remainder
RECURSIVE DivMillion(_, _, _)
DivMillion(b, i, rem) ==
    IF i > Len(b) THEN [q |-> <<>>, r |-> rem]
    ELSE LET acc == rem * 256 + b[i]
             rest == DivMillion(b, i + 1, acc % 1000000)
         IN [q |-> <<acc \div 1000000>> \o rest.q, r |-> rest.r]

\* C20 (SpecEncode): for a time of day, EncodeBinary returns the buffer it
\* was given followed by 8 bytes, the 64-bit big-endian integer
\* (hour*3600 + minute*60 + second) * 1000000 + nanosecond div 1000, that
\* is hour*3600000000 + minute*60000000 + second*1000000 + nanosecond div
\* 1000, a value of 0..86399999999; for the nil receiver it returns the nil
\* buffer.
C20_TimeOfDayEncoding ==
    (fn.op = "EncodeBinary" /\ fn.pc = "done") =>
        IF fn.src.ptr = "nil"
        THEN fn.out.nil /\ fn.out.bytes = <<>>
        ELSE LET n == Len(fn.buf.bytes)
                 d == DivMillion(SubSeq(fn.out.bytes, n + 1, n + 8), 1, 0)
                 secs == fn.src.hour * 3600 + fn.src.minute * 60 + fn.src.second
             IN /\ ~fn.out.nil
                /\ Len(fn.out.bytes) = n + 8
                /\ SubSeq(fn.out.bytes, 1, n) = fn.buf.bytes
                /\ d.r = fn.src.nanosecond \div 1000
                /\ d.q = <<0, 0, 0, 0, 0, secs \div 65536, (secs \div 256) % 256,
                           secs % 256>>
                /\ secs <= 86399 /\ d.r <= 999999

\* C20 witness: 23:59:59.999999999 was appended to a buffer that held a byte
C20_Witness ==
    /\ fn.op = "EncodeBinary"
    /\ fn.pc = "done"
    /\ fn.src = [ptr |-> "set", hour |-> 23, minute |-> 59, second |-> 59,
                 nanosecond |-> 999999999]
    /\ fn.buf = Slice(<<7>>)
    /\ fn.out.bytes = <<7, 0, 0, 0, 20, 29, 215, 95, 255>>

====
